---- MODULE Spec2Model ----
(***************************************************************************)
(* A model of allfollow (src/main.rs): the flake lock graph, the edge      *)
(* resolver, the reference counter, follows substitution, orphan pruning,  *)
(* the follows-config emitter and the three commands of main.              *)
(*                                                                         *)
(* The modules flake_lock and cli_args are declared in main.rs (lines 1-2) *)
(* but their files are not part of the sources at hand; the operators that *)
(* stand for them (the lock graph container, resolve_edge, the version     *)
(* limits, Output::create) follow the written specification, sections 3,   *)
(* 4.1, 4.2 and 6.                                                         *)
(***************************************************************************)
EXTENDS Integers, Sequences, FiniteSets, TLC

(***************************************************************************)
(* Bounds of the model.                                                    *)
(***************************************************************************)
\* the largest number of edges in a lock graph the model starts from
MaxEdges == 3

\* the node identifiers of the lock graphs; "root" is LockFile.root
RootIndex == "root"
InputIds == {"N1", "N2", "N3"}
NodeIds == {RootIndex} \cup InputIds
\* the nodes that have edges in the graphs the model starts from
EdgeOwners == {RootIndex, "N1", "N2"}
\* an identifier no node has: the target of a dangling Indexed edge
AbsentId == "N9"
\* the order of the nodes map when it is written as listed here
NodeOrder == <<"root", "N1", "N2", "N3">>

\* the input names; NameOrder is the order of an edge map written as listed
InputNames == {"nixpkgs", "foo"}
NameOrder == <<"nixpkgs", "foo">>

\* the follows paths of the lock graphs the model starts from
FollowsPaths == {<<"nixpkgs">>, <<"foo">>, <<"foo", "nixpkgs">>, <<"nixpkgs", "foo">>}

(***************************************************************************)
(* flake_lock: NodeEdge, Node, LockFile.                                   *)
(***************************************************************************)
\* NodeEdge::Indexed(index)
Indexed(i) == [kind |-> "Indexed", index |-> i]

\* NodeEdge::Follows(path)
Follows(p) == [kind |-> "Follows", path |-> p]

\* NodeEdge::from_iter([name])
NodeEdgeFromIter(names) == Follows(names)

\* NodeEdgeRef::index: the index of an Indexed edge, nothing for a Follows edge
NoIndex == "<no index>"
EdgeIndex(edge) == IF edge.kind = "Indexed" THEN edge.index ELSE NoIndex

\* results of a lookup or of a resolution that yields no node
None == "<none>"
Overflow == "<overflow>"

\* a node is its edge map: a sequence of [name, edge] in insertion order
RECURSIVE FindEdge(_, _, _)
FindEdge(node, name, k) ==
    IF k > Len(node) THEN 0
    ELSE IF node[k].name = name THEN k
    ELSE FindEdge(node, name, k + 1)

\* Node::get_edge(name): whether the node has an edge of that name
HasEdge(node, name) == FindEdge(node, name, 1) # 0

\* Node::get_edge(name): the edge of that name
GetEdge(node, name) == node[FindEdge(node, name, 1)].edge

\* the names of a node's edges
EdgeNames(node) == {node[k].name : k \in 1..Len(node)}

\* writing through the handle iter_edges_mut yields: edge k alone is replaced
SetEdge(g, n, k, edge) ==
    [g EXCEPT !.nodes = [@ EXCEPT ![n] = [@ EXCEPT ![k] = [@ EXCEPT !.edge = edge]]]]

\* LockFile::get_node(index): whether a node of that index exists
HasNode(g, index) == index \in DOMAIN g.nodes

\* LockFile::root()
Root(g) == g.nodes[g.root]

\* LockFile::node_indices(): the identifiers in the order of the nodes map
NodeIndices(g) == g.order

\* LockFile::remove_node(index): a keyed delete, no-op when absent
RemoveFromOrder(order, index) == SelectSeq(order, LAMBDA i : i # index)
RemoveNode(g, index) ==
    [g EXCEPT !.nodes = [i \in (DOMAIN g.nodes) \ {index} |-> g.nodes[i]],
              !.order = RemoveFromOrder(g.order, index)]

(***************************************************************************)
(* LockFile::resolve_edge.  An Indexed edge yields its identifier when a   *)
(* node has it; a Follows path is walked from the root, each name looked   *)
(* up among the edges of the node reached so far and that edge resolved in *)
(* turn.  busy holds the edges whose resolution is under way: meeting one  *)
(* of them again is a resolution that never ends (Overflow).               *)
(***************************************************************************)
RECURSIVE ResolveFrom(_, _, _)
RECURSIVE WalkPath(_, _, _, _, _)
ResolveFrom(g, edge, busy) ==
    IF edge.kind = "Indexed"
    THEN IF HasNode(g, edge.index) THEN edge.index ELSE None
    ELSE WalkPath(g, edge.path, 1, g.root, busy)

WalkPath(g, path, i, cur, busy) ==
    IF i > Len(path) THEN cur
    ELSE IF ~HasNode(g, cur) THEN None
    ELSE IF ~HasEdge(g.nodes[cur], path[i]) THEN None
    ELSE IF <<cur, path[i]>> \in busy THEN Overflow
    ELSE LET next == ResolveFrom(g, GetEdge(g.nodes[cur], path[i]),
                                 busy \cup {<<cur, path[i]>>})
         IN  IF next \in {None, Overflow} THEN next
             ELSE WalkPath(g, path, i + 1, next, busy)

ResolveEdge(g, edge) == ResolveFrom(g, edge, {})

(***************************************************************************)
(* recurse_inputs and FlakeNodeVisits::count_from_index.  A walk yields     *)
(* the indices op was called with, in call order.  The walk has no cycle   *)
(* guard: entering a node that is already on the walk's own stack is a     *)
(* recursion that never ends; an unwrap of nothing is a panic.             *)
(***************************************************************************)
Fatal(st) == [st |-> st, calls |-> <<>>]

\* a walk that calls op on the node and does not go on to its inputs
OpOnly(g, index, stack) ==
    IF ~HasNode(g, index) THEN Fatal("panic") ELSE [st |-> "ok", calls |-> <<index>>]

RECURSIVE RecurseInputs(_, _, _)
RECURSIVE RecurseEdges(_, _, _, _, _)
RecurseInputs(g, index, stack) ==
    IF ~HasNode(g, index) THEN Fatal("panic")
    ELSE IF index \in stack THEN Fatal("overflow")
    ELSE RecurseEdges(g, index, 1, stack \cup {index}, <<index>>)

RecurseEdges(g, index, k, stack, calls) ==
    IF k > Len(g.nodes[index]) THEN [st |-> "ok", calls |-> calls]
    ELSE LET target == ResolveEdge(g, g.nodes[index][k].edge)
         IN  IF target = None THEN Fatal("panic")
             ELSE IF target = Overflow THEN Fatal("overflow")
             ELSE LET sub == RecurseInputs(g, target, stack)
                  IN  IF sub.st # "ok" THEN sub
                      ELSE RecurseEdges(g, index, k + 1, stack, calls \o sub.calls)

\* the tally of a map that does not keep the order of the graph's nodes
ZeroHitsUnordered(g) ==
    [k \in 1..Len(NodeIndices(g)) |->
        [index |-> NodeIndices(g)[Len(NodeIndices(g)) + 1 - k], count |-> 0]]

\* IndexMap::from_iter(lock.node_indices().zip(repeat(0_u32)))
ZeroHits(g) == [k \in 1..Len(NodeIndices(g)) |-> [index |-> NodeIndices(g)[k], count |-> 0]]

\* *node_hits.get_mut(index).unwrap() += 1
Bump(hits, index) ==
    [k \in 1..Len(hits) |->
        IF hits[k].index = index THEN [hits[k] EXCEPT !.count = @ + 1] ELSE hits[k]]

RECURSIVE BumpAll(_, _, _)
BumpAll(hits, calls, k) ==
    IF k > Len(calls) THEN hits ELSE BumpAll(Bump(hits, calls[k]), calls, k + 1)

CountFromIndex(g, index) ==
    LET walk == RecurseInputs(g, index, {})
    IN  [st |-> walk.st,
         inner |-> IF walk.st = "ok" THEN BumpAll(ZeroHits(g), walk.calls, 1) ELSE <<>>,
         root_index |-> index]

(***************************************************************************)
(* substitute_flake_inputs_with_follows and                                *)
(* substitute_node_inputs_with_root_inputs, one edge after the other on    *)
(* the shared graph.                                                       *)
(***************************************************************************)
\* a replacement that pays no heed to the indexed flag
ReplacementAlwaysFollows(root, edge_name, indexed) == NodeEdgeFromIter(<<edge_name>>)

\* the value an edge named like a root edge is replaced with
Replacement(root, edge_name, indexed) ==
    IF indexed THEN GetEdge(root, edge_name) ELSE NodeEdgeFromIter(<<edge_name>>)

\* the edges of the node handed to the rewrite that are looked at
RewrittenEdges(g, node) == 1..Len(g.nodes[node])

\* The rewrite holds the exclusive handle of an edge of node while it reads
\* the root's edge of the same name.  When node is the root itself (the root
\* is the target of one of its own Indexed edges) the two are one edge: the
\* exclusive borrow is refused and the process panics.
BorrowConflict(g, node) == node = g.root

RECURSIVE SubstituteNode(_, _, _, _)
SubstituteNode(g, node, indexed, k) ==
    IF k \notin RewrittenEdges(g, node) THEN [st |-> "ok", g |-> g]
    ELSE IF BorrowConflict(g, node) THEN [st |-> "panic", g |-> g]
    ELSE LET edge_name == g.nodes[node][k].name
         IN  IF HasEdge(Root(g), edge_name)
             THEN SubstituteNode(SetEdge(g, node, k, Replacement(Root(g), edge_name, indexed)),
                                 node, indexed, k + 1)
             ELSE LET target == ResolveEdge(g, g.nodes[node][k].edge)
                  IN  IF target = None THEN [st |-> "panic", g |-> g]
                      ELSE IF target = Overflow THEN [st |-> "overflow", g |-> g]
                      ELSE SubstituteNode(g, node, indexed, k + 1)

RECURSIVE SubstituteInputs(_, _, _)
SubstituteInputs(g, indexed, k) ==
    IF k > Len(Root(g)) THEN [st |-> "ok", g |-> g]
    ELSE LET input_index == EdgeIndex(Root(g)[k].edge)
         IN  IF input_index = NoIndex THEN SubstituteInputs(g, indexed, k + 1)
             ELSE IF ~HasNode(g, input_index) THEN [st |-> "panic", g |-> g]
             ELSE LET done == SubstituteNode(g, input_index, indexed, 1)
                  IN  IF done.st # "ok" THEN done
                      ELSE SubstituteInputs(done.g, indexed, k + 1)

SubstituteFlakeInputsWithFollows(g, indexed) == SubstituteInputs(g, indexed, 1)

(***************************************************************************)
(* prune_orphan_nodes.                                                     *)
(***************************************************************************)
\* a filter that also takes the nodes referenced once
IsDeadAtMostOnce(hit) == hit.count <= 1

\* .filter(|&(_, count)| count == 0)
IsDead(hit) == hit.count = 0

DeadNodes(hits) ==
    LET dead == SelectSeq(hits, IsDead)
    IN  [k \in 1..Len(dead) |-> dead[k].index]

\* a removal loop that stops after its first node
RemoveFirstOnly(g, dead, k) ==
    IF Len(dead) = 0 THEN g ELSE RemoveNode(g, dead[1])

RECURSIVE RemoveAll(_, _, _)
RemoveAll(g, dead, k) ==
    IF k > Len(dead) THEN g ELSE RemoveAll(RemoveNode(g, dead[k]), dead, k + 1)

PruneOrphanNodes(g) ==
    LET node_hits == CountFromIndex(g, g.root)
    IN  IF node_hits.st # "ok" THEN [st |-> node_hits.st, g |-> g]
        ELSE [st |-> "ok", g |-> RemoveAll(g, DeadNodes(node_hits.inner), 1)]

(***************************************************************************)
(* The lock graphs the model starts from: every choice of at most          *)
(* MaxEdges edges among the nodes ids, each edge Indexed (to a node, or to *)
(* an identifier no node has) or Follows, the maps in listed or in         *)
(* reversed order.                                                         *)
(***************************************************************************)
Reverse(seq) == [k \in 1..Len(seq) |-> seq[Len(seq) + 1 - k]]

EdgeValues(ids, paths) ==
    {Indexed(i) : i \in ids \cup {AbsentId}} \cup {Follows(p) : p \in paths}

SlotSets(owners, n) == {S \in SUBSET (owners \X InputNames) : Cardinality(S) <= n}

BuildNode(S, f, n, names) ==
    LET mine == SelectSeq(names, LAMBDA name : <<n, name>> \in S)
    IN  [k \in 1..Len(mine) |-> [name |-> mine[k], edge |-> f[<<n, mine[k]>>]]]

BuildLock(ids, S, f, rev, version) ==
    [nodes   |-> [n \in ids |-> BuildNode(S, f, n, IF rev THEN Reverse(NameOrder) ELSE NameOrder)],
     order   |-> LET listed == SelectSeq(NodeOrder, LAMBDA i : i \in ids)
                 IN  IF rev THEN Reverse(listed) ELSE listed,
     root    |-> RootIndex,
     version |-> version]

(***************************************************************************)
(* print_flake_follows_config and traverse_and_print_config: the text that *)
(* is written.                                                             *)
(***************************************************************************)
StartMarker == "# START INPUT FOLLOW BLOCK -- DO NOT EDIT MANUALLY"

EndMarker == "# END INPUT FOLLOW BLOCK -- DO NOT EDIT MANUALLY"

\* config_path.join(".inputs.")
RECURSIVE Join(_, _)
Join(path, sep) ==
    IF Len(path) = 0 THEN ""
    ELSE IF Len(path) = 1 THEN path[1]
    ELSE path[1] \o sep \o Join(Tail(path), sep)

\* a line made of current_path without the edge's own name pushed
FollowsLineNoPush(current_path, edge_name) ==
    "    " \o Join(current_path, ".inputs.") \o ".follows = \"" \o edge_name \o "\";"

\* writeln!(writer, "    {}.follows = \"{}\";", path_str, edge_name)
FollowsLine(current_path, edge_name) ==
    "    " \o Join(Append(current_path, edge_name), ".inputs.")
           \o ".follows = \"" \o edge_name \o "\";"

\* root_inputs: the names of the root's edges
RootInputNames(g) == EdgeNames(Root(g))

\* root_inputs.contains(edge_name)
IsRootInput(g, edge_name) == edge_name \in RootInputNames(g)

\* visited_indices.contains(&child_index)
VisitedContains(visited, child_index) ==
    \E i \in 1..Len(visited) : visited[i] = child_index

\* the sequence without its last element
Front(seq) == SubSeq(seq, 1, Len(seq) - 1)

(***************************************************************************)
(* read_flake_lock: the version gate.                                      *)
(***************************************************************************)
\* MAX_SUPPORTED_LOCK_VERSION
MAX_SUPPORTED_LOCK_VERSION == 7

\* MIN_SUPPORTED_LOCK_VERSION
MIN_SUPPORTED_LOCK_VERSION == 5

\* the versions of the lock files the commands are run on
Versions == (MIN_SUPPORTED_LOCK_VERSION - 1)..(MAX_SUPPORTED_LOCK_VERSION + 1)

\* the condition under which read_flake_lock panics
VersionRejected(version) ==
    version < MIN_SUPPORTED_LOCK_VERSION /\ version > MAX_SUPPORTED_LOCK_VERSION

(***************************************************************************)
(* State.                                                                  *)
(***************************************************************************)
VARIABLES
    lock,            \* the LockFile
    status,          \* "ok", or how the process ended: "panic", "overflow"
    lastOp,          \* the library operation that was applied last
    indexed,         \* the indexed flag of the last substitution
    prev,            \* the lock before the last library operation
    node_hits,       \* the FlakeNodeVisits of the last count_from_index
    pair,            \* how far two runs of substitution and pruning have come
    snap,            \* the lock after the first such run
    cmd,             \* the Command main runs: "prune", "count", "config"
    pc,              \* the position of main
    opts,            \* the options of the command
    target,          \* the output target: "orig", "truncated", "partial", "written"
    met_unresolved,  \* a traversal met an edge that resolves to no node
    content,         \* update_flake_nix: flake.nix as read_to_string returned it
    flake_nix,       \* flake.nix as update_flake_nix left it
    root_k,          \* print_flake_follows_config: the root edge the loop is at
    frames,          \* the calls of traverse_and_print_config under way
    visited_indices, \* the vector of that name
    writer           \* the lines written so far

libVars == <<lastOp, indexed, prev, node_hits, pair, snap>>
cmdVars == <<cmd, pc, opts, content, flake_nix, target, met_unresolved>>
cfgVars == <<root_k, frames, visited_indices, writer>>
vars == <<lock, status, libVars, cmdVars, cfgVars>>

\* flake.nix when it was not read, or cannot be read
NoFile == <<"<no file>">>

NoHits == [inner |-> <<>>, root_index |-> RootIndex]

NoOptions ==
    [no_follows |-> FALSE, json |-> FALSE, output |-> "stdout",
     overwrite |-> FALSE, exists |-> FALSE]

\* the state that is the same at the start of every specification
InitRest ==
    /\ status = "ok"
    /\ lastOp = "load"
    /\ indexed = FALSE
    /\ prev = lock
    /\ node_hits = NoHits
    /\ pair = 0
    /\ snap = lock
    /\ target = "orig"
    /\ met_unresolved = FALSE
    /\ content = NoFile
    /\ flake_nix = NoFile
    /\ root_k = 0
    /\ frames = <<>>
    /\ visited_indices = <<>>
    /\ writer = <<>>

(***************************************************************************)
(* The library: substitution, pruning and counting applied in any order,   *)
(* as the tests of main.rs apply them.                                     *)
(***************************************************************************)
Init ==
    /\ \E S \in SlotSets(EdgeOwners, MaxEdges) :
         \E f \in [S -> EdgeValues(NodeIds, FollowsPaths)] :
           lock = BuildLock(NodeIds, S, f, FALSE, MAX_SUPPORTED_LOCK_VERSION)
    /\ cmd = "lib"
    /\ pc = "lib"
    /\ opts = NoOptions
    /\ InitRest

\* substitute_flake_inputs_with_follows(&lock, flag)
Substitute(flag) ==
    /\ status = "ok"
    /\ pc = "lib"
    /\ LET done == SubstituteFlakeInputsWithFollows(lock, flag)
       IN  /\ lock' = done.g
           /\ status' = done.st
    /\ lastOp' = "substitute"
    /\ indexed' = flag
    /\ prev' = lock
    /\ node_hits' = NoHits
    /\ pair' = IF pair = 2 /\ flag = indexed THEN 3 ELSE 1
    /\ snap' = IF pair' = 3 THEN snap ELSE lock'
    /\ UNCHANGED <<cmdVars, cfgVars>>

\* prune_orphan_nodes(&mut lock)
Prune ==
    /\ status = "ok"
    /\ pc = "lib"
    /\ LET done == PruneOrphanNodes(lock)
       IN  /\ lock' = done.g
           /\ status' = done.st
    /\ lastOp' = "prune"
    /\ prev' = lock
    /\ node_hits' = NoHits
    /\ pair' = IF pair = 1 THEN 2 ELSE IF pair = 3 THEN 4 ELSE 0
    /\ snap' = IF pair' = 4 THEN snap ELSE lock'
    /\ UNCHANGED <<indexed, cmdVars, cfgVars>>

\* FlakeNodeVisits::count_from_index(&lock, start)
Count(start) ==
    /\ status = "ok"
    /\ pc = "lib"
    /\ LET hits == CountFromIndex(lock, start)
       IN  /\ node_hits' = [inner |-> hits.inner, root_index |-> hits.root_index]
           /\ status' = hits.st
    /\ lastOp' = "count"
    /\ prev' = lock
    /\ pair' = 0
    /\ snap' = lock
    /\ UNCHANGED <<lock, indexed, cmdVars, cfgVars>>

Next ==
    \/ \E flag \in BOOLEAN : Substitute(flag)
    \/ Prune
    \/ \E start \in NodeIds : Count(start)

Spec == Init /\ [][Next]_vars

(***************************************************************************)
(* print_flake_follows_config, one edge at a time.  A frame is a call of   *)
(* traverse_and_print_config: its node, the edge its loop is at and its    *)
(* current_path.                                                           *)
(***************************************************************************)
TopFrame == frames[Len(frames)]
TopNode == lock.nodes[TopFrame.node]
AdvanceTop(fs) == [fs EXCEPT ![Len(fs)] = [@ EXCEPT !.k = @ + 1]]

\* the two header lines and the set of root inputs
EmitStart ==
    /\ status = "ok"
    /\ cmd = "config"
    /\ pc = "loaded"
    /\ writer' = <<StartMarker, "inputs = {">>
    /\ root_k' = 1
    /\ pc' = "roots"
    /\ UNCHANGED <<lock, status, libVars, cmd, opts, content, flake_nix, target, met_unresolved,
                   frames, visited_indices>>

\* one turn of the loop over the root's edges: a call for an Indexed edge
EmitRootEdge ==
    /\ status = "ok"
    /\ pc = "roots"
    /\ frames = <<>>
    /\ root_k <= Len(Root(lock))
    /\ LET input_name == Root(lock)[root_k].name
           index == EdgeIndex(Root(lock)[root_k].edge)
       IN  IF index = NoIndex
           THEN /\ root_k' = root_k + 1
                /\ UNCHANGED <<status, frames, visited_indices>>
           ELSE IF ~HasNode(lock, index)
           THEN /\ status' = "panic"
                /\ UNCHANGED <<root_k, frames, visited_indices>>
           ELSE /\ frames' = <<[node |-> index, k |-> 1, path |-> <<input_name>>]>>
                /\ visited_indices' = <<index>>
                /\ UNCHANGED <<root_k, status>>
    /\ UNCHANGED <<lock, libVars, cmdVars, writer>>

\* an edge named like a root input: its line is written, no descent
TraverseFollowsLine ==
    /\ status = "ok"
    /\ pc = "roots"
    /\ frames # <<>>
    /\ TopFrame.k <= Len(TopNode)
    /\ IsRootInput(lock, TopNode[TopFrame.k].name)
    /\ writer' = Append(writer, FollowsLine(TopFrame.path, TopNode[TopFrame.k].name))
    /\ frames' = AdvanceTop(frames)
    /\ UNCHANGED <<lock, status, libVars, cmdVars, root_k, visited_indices>>

\* any other edge: resolved, and descended into unless its target is on the
\* current path; an edge that resolves to nothing is passed over
TraverseRecurse ==
    /\ status = "ok"
    /\ pc = "roots"
    /\ frames # <<>>
    /\ TopFrame.k <= Len(TopNode)
    /\ ~IsRootInput(lock, TopNode[TopFrame.k].name)
    /\ LET edge_name == TopNode[TopFrame.k].name
           child_index == ResolveEdge(lock, TopNode[TopFrame.k].edge)
       IN  IF child_index = Overflow
           THEN /\ status' = "overflow"
                /\ UNCHANGED <<frames, visited_indices, met_unresolved>>
           ELSE IF child_index = None
           THEN /\ met_unresolved' = TRUE
                /\ frames' = AdvanceTop(frames)
                /\ UNCHANGED <<status, visited_indices>>
           ELSE IF VisitedContains(visited_indices, child_index)
           THEN /\ frames' = AdvanceTop(frames)
                /\ UNCHANGED <<status, visited_indices, met_unresolved>>
           ELSE /\ visited_indices' = Append(visited_indices, child_index)
                /\ frames' = Append(frames, [node |-> child_index, k |-> 1,
                                             path |-> Append(TopFrame.path, edge_name)])
                /\ UNCHANGED <<status, met_unresolved>>
    /\ UNCHANGED <<lock, libVars, cmd, pc, opts, content, flake_nix, target, root_k, writer>>

\* a return without visited_indices.pop()
KeepVisited(visited) == visited

\* visited_indices.pop() after the call made from a frame has returned
PopVisited(visited) == Front(visited)

\* the loop of a call is over: it returns, to its caller's visited_indices.pop()
\* or to the loop over the root's edges
TraverseReturn ==
    /\ status = "ok"
    /\ pc = "roots"
    /\ frames # <<>>
    /\ TopFrame.k > Len(TopNode)
    /\ IF Len(frames) > 1
       THEN /\ frames' = AdvanceTop(Front(frames))
            /\ visited_indices' = PopVisited(visited_indices)
            /\ UNCHANGED root_k
       ELSE /\ frames' = <<>>
            /\ visited_indices' = <<>>
            /\ root_k' = root_k + 1
    /\ UNCHANGED <<lock, status, libVars, cmdVars, writer>>

\* the two trailer lines
EmitEnd ==
    /\ status = "ok"
    /\ pc = "roots"
    /\ frames = <<>>
    /\ root_k > Len(Root(lock))
    /\ writer' = writer \o <<"};", EndMarker>>
    /\ pc' = "emitted"
    /\ UNCHANGED <<lock, status, libVars, cmd, opts, content, flake_nix, target, met_unresolved,
                   root_k, frames, visited_indices>>

\* print!("{}", config_output)
PrintConfig ==
    /\ status = "ok"
    /\ cmd = "config"
    /\ pc = "emitted"
    /\ opts.output # "in_place"
    /\ target' = "written"
    /\ pc' = "done"
    /\ UNCHANGED <<lock, status, libVars, cmd, opts, content, flake_nix, met_unresolved, cfgVars>>

InitConfig ==
    /\ \E S \in SlotSets(EdgeOwners, MaxEdges) :
         \E f \in [S -> EdgeValues(NodeIds, FollowsPaths)] :
           \E rev \in BOOLEAN :
             lock = BuildLock(NodeIds, S, f, rev, MAX_SUPPORTED_LOCK_VERSION)
    /\ cmd = "config"
    /\ pc = "loaded"
    /\ opts = NoOptions
    /\ InitRest

NextConfig ==
    \/ EmitStart
    \/ EmitRootEdge
    \/ TraverseFollowsLine
    \/ TraverseRecurse
    \/ TraverseReturn
    \/ EmitEnd
    \/ PrintConfig

\* the process is the only one there is and runs on while it can
SpecConfig == InitConfig /\ [][NextConfig]_vars /\ WF_vars(NextConfig)

(***************************************************************************)
(* main: the commands prune, count and config on a lock file.              *)
(***************************************************************************)
\* the nodes of the lock files the commands are run on, and those with edges
CmdIds == {RootIndex, "N1", "N2"}
CmdOwners == {RootIndex, "N1"}
CmdEdges == MaxEdges - 1

\* OutputOptions after Command::from_env: stdout, a file that exists or not
\* with or without --overwrite, or --in-place (the output is the lock file
\* and overwrite is set)
OutputChoices ==
    {[output |-> "stdout", overwrite |-> FALSE, exists |-> FALSE],
     [output |-> "in_place", overwrite |-> TRUE, exists |-> TRUE]}
    \cup {[output |-> "file", overwrite |-> o, exists |-> e] : o, e \in BOOLEAN}

WithOutput(no_follows, json, o) ==
    [no_follows |-> no_follows, json |-> json, output |-> o.output,
     overwrite |-> o.overwrite, exists |-> o.exists]

OptionsOf(command) ==
    IF command = "prune"
    THEN {WithOutput(nf, FALSE, o) : nf \in BOOLEAN, o \in OutputChoices}
    ELSE IF command = "count"
    THEN {WithOutput(FALSE, TRUE, o) : o \in OutputChoices} \cup {NoOptions}
    ELSE {NoOptions}

\* Output::create(no_clobber): a file that exists is not written over
CreateRefused(o) == o.output = "file" /\ ~o.overwrite /\ o.exists

InitCmd ==
    /\ \E S \in SlotSets(CmdOwners, CmdEdges) :
         \E f \in [S -> EdgeValues(CmdIds, FollowsPaths)] :
           \E version \in Versions :
             lock = BuildLock(CmdIds, S, f, FALSE, version)
    /\ cmd \in {"prune", "count", "config"}
    /\ opts \in OptionsOf(cmd)
    /\ pc = "start"
    /\ InitRest

\* read_flake_lock(lock_file)
ReadFlakeLock ==
    /\ status = "ok"
    /\ pc = "start"
    /\ status' = IF VersionRejected(lock.version) THEN "panic" ELSE "ok"
    /\ pc' = "loaded"
    /\ UNCHANGED <<lock, libVars, cmd, opts, content, flake_nix, target, met_unresolved, cfgVars>>

\* let node_hits = FlakeNodeVisits::count_from_index(&lock, lock.root_index()),
\* of prune and of count
CountStep ==
    /\ status = "ok"
    /\ cmd \in {"prune", "count"}
    /\ pc = "loaded"
    /\ LET hits == CountFromIndex(lock, lock.root)
       IN  /\ node_hits' = [inner |-> hits.inner, root_index |-> hits.root_index]
           /\ status' = hits.st
           /\ met_unresolved' = (met_unresolved \/ hits.st = "panic")
    /\ pc' = "counted"
    /\ UNCHANGED <<lock, lastOp, indexed, prev, pair, snap, cmd, opts, content, flake_nix, target, cfgVars>>

\* substitute_flake_inputs_with_follows(&lock, no_follows)
SubstituteStep ==
    /\ status = "ok"
    /\ cmd = "prune"
    /\ pc = "counted"
    /\ LET done == SubstituteFlakeInputsWithFollows(lock, opts.no_follows)
       IN  /\ lock' = done.g
           /\ status' = done.st
           /\ met_unresolved' = (met_unresolved \/ done.st = "panic")
    /\ pc' = "substituted"
    /\ UNCHANGED <<libVars, cmd, opts, content, flake_nix, target, cfgVars>>

\* prune_orphan_nodes(&mut lock)
PruneStep ==
    /\ status = "ok"
    /\ cmd = "prune"
    /\ pc = "substituted"
    /\ LET done == PruneOrphanNodes(lock)
       IN  /\ lock' = done.g
           /\ status' = done.st
           /\ met_unresolved' = (met_unresolved \/ done.st = "panic")
    /\ pc' = "pruned"
    /\ UNCHANGED <<libVars, cmd, opts, content, flake_nix, target, cfgVars>>

\* the count after pruning
RecountStep ==
    /\ status = "ok"
    /\ cmd = "prune"
    /\ pc = "pruned"
    /\ LET hits == CountFromIndex(lock, lock.root)
       IN  /\ node_hits' = [inner |-> hits.inner, root_index |-> hits.root_index]
           /\ status' = hits.st
           /\ met_unresolved' = (met_unresolved \/ hits.st = "panic")
    /\ pc' = "recounted"
    /\ UNCHANGED <<lock, lastOp, indexed, prev, pair, snap, cmd, opts, content, flake_nix, target, cfgVars>>

\* main is at a call of serialize_to_json_output
AtSerialize ==
    IF cmd = "prune" THEN pc = "recounted"
    ELSE cmd = "count" /\ pc = "counted" /\ opts.json

\* serialize_to_json_output: output.create(!overwrite)
OpenOutput ==
    /\ status = "ok"
    /\ AtSerialize
    /\ IF CreateRefused(opts)
       THEN /\ status' = "panic"
            /\ UNCHANGED <<pc, target>>
       ELSE /\ target' = IF opts.output = "stdout" THEN target ELSE "truncated"
            /\ pc' = "opened"
            /\ UNCHANGED status
    /\ UNCHANGED <<lock, libVars, cmd, opts, content, flake_nix, met_unresolved, cfgVars>>

\* serialize_to_json_output: value.serialize(...), which the writer may fail
SerializeOutput ==
    /\ status = "ok"
    /\ pc = "opened"
    /\ \E served \in BOOLEAN :
         IF served
         THEN /\ target' = "written"
              /\ pc' = "done"
              /\ UNCHANGED status
         ELSE /\ target' = "partial"
              /\ status' = "panic"
              /\ UNCHANGED pc
    /\ UNCHANGED <<lock, libVars, cmd, opts, content, flake_nix, met_unresolved, cfgVars>>

\* logln!(... &node_hits) of count without --json
PrintHits ==
    /\ status = "ok"
    /\ cmd = "count"
    /\ pc = "counted"
    /\ ~opts.json
    /\ target' = "written"
    /\ pc' = "done"
    /\ UNCHANGED <<lock, status, libVars, cmd, opts, content, flake_nix, met_unresolved, cfgVars>>

NextCmd ==
    \/ ReadFlakeLock
    \/ CountStep
    \/ SubstituteStep
    \/ PruneStep
    \/ RecountStep
    \/ OpenOutput
    \/ SerializeOutput
    \/ PrintHits
    \/ EmitStart
    \/ EmitRootEdge
    \/ TraverseFollowsLine
    \/ TraverseRecurse
    \/ TraverseReturn
    \/ EmitEnd
    \/ PrintConfig

SpecCmd == InitCmd /\ [][NextCmd]_vars

(***************************************************************************)
(* update_flake_nix: the block between the markers of flake.nix is         *)
(* replaced by the generated one.  A text is a sequence of pieces: a       *)
(* marker, a line of the generated block, a line break, a space or some    *)
(* other text; an offset counts the pieces before a place.                 *)
(***************************************************************************)
NewLine == "\n"
Space == " "
OtherText == "x"

\* what str::find returns when the text does not hold the marker
NotFound == -1

\* content.find(marker): the offset of the first occurrence
RECURSIVE FindFrom(_, _, _)
FindFrom(text, marker, k) ==
    IF k > Len(text) THEN NotFound
    ELSE IF text[k] = marker THEN k - 1
    ELSE FindFrom(text, marker, k + 1)

Find(text, marker) == FindFrom(text, marker, 1)

\* marker.len()
MarkerLen(marker) == Len(<<marker>>)

\* text[from..to]
Slice(text, from, to) == SubSeq(text, from + 1, to)

\* content[..start].rfind('\n').map(|i| i + 1).unwrap_or(0)
RECURSIVE LineStart(_, _)
LineStart(text, start) ==
    IF start = 0 THEN 0
    ELSE IF text[start] = NewLine THEN start
    ELSE LineStart(text, start - 1)

\* String::from_utf8(buf): every line ends with a line break but the last,
\* which print_flake_follows_config writes with write!
RECURSIVE ConfigOutput(_)
ConfigOutput(w) ==
    IF Len(w) <= 1 THEN w
    ELSE <<Head(w), NewLine>> \o ConfigOutput(Tail(w))

\* str::lines: the text between line breaks, no empty line after the last
RECURSIVE LinesFrom(_, _, _)
LinesFrom(text, k, line) ==
    IF k > Len(text) THEN (IF line = <<>> THEN <<>> ELSE <<line>>)
    ELSE IF text[k] = NewLine THEN <<line>> \o LinesFrom(text, k + 1, <<>>)
    ELSE LinesFrom(text, k + 1, Append(line, text[k]))

Lines(text) == LinesFrom(text, 1, <<>>)

\* .collect::<Vec<_>>().join("\n")
RECURSIVE JoinLines(_)
JoinLines(ls) ==
    IF ls = <<>> THEN <<>>
    ELSE IF Len(ls) = 1 THEN ls[1]
    ELSE ls[1] \o <<NewLine>> \o JoinLines(Tail(ls))

\* config.lines().map(|line| format!("{}{}", indent, line)) joined
IndentedConfig(indent, config) ==
    LET ls == Lines(config)
    IN  JoinLines([k \in 1..Len(ls) |-> indent \o ls[k]])

NoTruncate(text, new_len) == text

\* new_content.truncate(line_start)
Truncate(text, new_len) == SubSeq(text, 1, new_len)

\* what update_flake_nix hands to std::fs::write, unless it panics before:
\* a marker is missing, or START does not come before END
NewContent(text, config) ==
    LET start_idx == Find(text, StartMarker)
        end_idx == Find(text, EndMarker)
    IN  IF start_idx = NotFound \/ end_idx = NotFound THEN [st |-> "panic", text |-> text]
        ELSE IF start_idx >= end_idx THEN [st |-> "panic", text |-> text]
        ELSE LET line_start == LineStart(text, start_idx)
                 indent == Slice(text, line_start, start_idx)
                 indented_config == IndentedConfig(indent, config)
                 end_of_end_marker == end_idx + MarkerLen(EndMarker)
             IN  [st |-> "ok",
                  text |-> Truncate(Slice(text, 0, start_idx), line_start)
                               \o indented_config
                               \o Slice(text, end_of_end_marker, Len(text))]

\* the flake.nix files update_flake_nix is given: lines before, the text
\* before the first marker on its line, up to three markers with text
\* between them, and text after
Befores == {<<>>, <<OtherText, NewLine>>}
Indents == {<<>>, <<Space, Space>>, <<OtherText, Space>>}
Markers == {<<>>, <<StartMarker>>, <<EndMarker>>}
Betweens == {<<>>, <<NewLine>>, <<NewLine, OtherText, NewLine, Space, Space>>}
Tails == {<<>>, <<NewLine, StartMarker>>, <<NewLine, EndMarker>>}
Afters == {<<>>, <<NewLine>>, <<OtherText, NewLine>>, <<NewLine, OtherText>>}

FlakeNixFiles ==
    {NoFile} \cup
    {b \o i \o m1 \o t \o m2 \o m3 \o a :
        b \in Befores, i \in Indents, m1 \in Markers, t \in Betweens,
        m2 \in Markers, m3 \in Tails, a \in Afters}

\* what a std::fs::write that failed leaves: the file as it was when it
\* could not be opened, an empty file when nothing was written after that
WriteFailures(file) == {file, <<>>}

\* update_flake_nix(&flake_nix_path, &config_output)
UpdateFlakeNix ==
    /\ status = "ok"
    /\ cmd = "config"
    /\ pc = "emitted"
    /\ opts.output = "in_place"
    /\ \E file \in FlakeNixFiles :
         /\ content' = file
         /\ IF file = NoFile
            THEN /\ status' = "panic"
                 /\ flake_nix' = file
                 /\ UNCHANGED <<pc, target>>
            ELSE LET new_content == NewContent(file, ConfigOutput(writer))
                 IN  IF new_content.st # "ok"
                     THEN /\ status' = "panic"
                          /\ flake_nix' = file
                          /\ UNCHANGED <<pc, target>>
                     ELSE \/ /\ flake_nix' = new_content.text
                             /\ target' = "written"
                             /\ pc' = "done"
                             /\ UNCHANGED status
                          \/ /\ flake_nix' \in WriteFailures(file)
                             /\ target' = IF flake_nix' = file THEN "orig" ELSE "truncated"
                             /\ status' = "panic"
                             /\ UNCHANGED pc
    /\ UNCHANGED <<lock, libVars, cmd, opts, met_unresolved, cfgVars>>

\* config --in-place: the locks whose edges are all Indexed
InitPatch ==
    /\ \E S \in SlotSets(CmdOwners, CmdEdges) :
         \E f \in [S -> EdgeValues(CmdIds, {})] :
           lock = BuildLock(CmdIds, S, f, FALSE, MAX_SUPPORTED_LOCK_VERSION)
    /\ cmd = "config"
    /\ pc = "loaded"
    /\ opts = [NoOptions EXCEPT !.output = "in_place"]
    /\ InitRest

NextPatch ==
    \/ EmitStart
    \/ EmitRootEdge
    \/ TraverseFollowsLine
    \/ TraverseRecurse
    \/ TraverseReturn
    \/ EmitEnd
    \/ UpdateFlakeNix

SpecPatch == InitPatch /\ [][NextPatch]_vars

(***************************************************************************)
(* Reference notions the properties are stated with.                       *)
(***************************************************************************)
\* the nodes the edges of node n resolve to
ResolvedTargets(g, n) ==
    {ResolveEdge(g, g.nodes[n][k].edge) : k \in 1..Len(g.nodes[n])} \ {None, Overflow}

\* the nodes reachable from the nodes of R by edge resolutions
RECURSIVE ReachableFrom(_, _)
ReachableFrom(g, R) ==
    LET more == R \cup UNION {ResolvedTargets(g, n) : n \in R \cap DOMAIN g.nodes}
    IN  IF more = R THEN R ELSE ReachableFrom(g, more)

\* every edge of every node resolves to an existing node in finitely many hops
AllEdgesResolve(g) ==
    \A n \in DOMAIN g.nodes : \A k \in 1..Len(g.nodes[n]) :
        HasNode(g, ResolveEdge(g, g.nodes[n][k].edge))

\* the targets of the Indexed edges of the root
RootInputs(g) == {EdgeIndex(Root(g)[k].edge) : k \in 1..Len(Root(g))} \ {NoIndex}

\* the reference rewrite of substitution, edge by edge
ReferenceRewrite(g, flag) ==
    [g EXCEPT !.nodes =
        [n \in DOMAIN g.nodes |->
            [k \in 1..Len(g.nodes[n]) |->
                IF n \in RootInputs(g) /\ g.nodes[n][k].name \in EdgeNames(Root(g))
                THEN [name |-> g.nodes[n][k].name,
                      edge |-> IF flag THEN GetEdge(Root(g), g.nodes[n][k].name)
                               ELSE Follows(<<g.nodes[n][k].name>>)]
                ELSE g.nodes[n][k]]]]

\* C1: when substitution followed by pruning has completed, a second run of
\* the pair with the same indexed flag completes as well and leaves the graph
\* as the first run left it: same nodes, same value for every edge.
C1_PruneIdempotent ==
    pair \in {3, 4} => status = "ok" /\ lock = snap

\* two runs of the pair have completed, and the first one removed a node
C1_Witness ==
    /\ pair = 4
    /\ status = "ok"
    /\ Cardinality(DOMAIN lock.nodes) < Cardinality(NodeIds)
    /\ \E n \in DOMAIN lock.nodes : \E k \in 1..Len(lock.nodes[n]) :
          n # lock.root /\ lock.nodes[n][k].edge.kind = "Follows"

\* C2: after prune_orphan_nodes has returned the root is present, a tally
\* counted again from the root gives every surviving node at least 1, and
\* every surviving node is reachable from the root by edge resolutions.
C2_PruneSafety ==
    (lastOp = "prune" /\ status = "ok") =>
        /\ HasNode(lock, lock.root)
        /\ LET again == CountFromIndex(lock, lock.root)
           IN  /\ again.st = "ok"
               /\ \A k \in 1..Len(again.inner) : again.inner[k].count >= 1
               /\ {again.inner[k].index : k \in 1..Len(again.inner)} = DOMAIN lock.nodes
        /\ DOMAIN lock.nodes \subseteq ReachableFrom(lock, {lock.root})

\* pruning has returned after removing a node, and a node besides the root is left
C2_Witness ==
    /\ lastOp = "prune"
    /\ status = "ok"
    /\ Len(lock.order) < Len(prev.order)
    /\ Len(lock.order) > 1

\* C3: a completed substitution leaves exactly the reference rewrite of the
\* graph it started from: in the targets of the root's Indexed edges every
\* edge named like a root edge is Follows([name]) (indexed false) or a copy
\* of the root's edge (indexed true); every other edge and the node set are
\* as before.
C3_SubstitutionIsReferenceRewrite ==
    (lastOp = "substitute" /\ status = "ok") => lock = ReferenceRewrite(prev, indexed)

\* a substitution has completed that rewrote an edge and left another one of
\* the same node, named like no root edge, as it was
C3_Witness ==
    /\ lastOp = "substitute"
    /\ status = "ok"
    /\ \E n \in RootInputs(prev) : \E j, k \in 1..Len(prev.nodes[n]) :
          /\ lock.nodes[n][j] # prev.nodes[n][j]
          /\ prev.nodes[n][k].name \notin EdgeNames(Root(prev))

\* C4: when every edge resolved before a substitution or a pruning that
\* completed, every edge of every remaining node resolves after it (stated
\* here for the graphs a count from the root accepts: no edge leads back to
\* a node it was reached from).
C4_EdgesKeepResolving ==
    (/\ lastOp \in {"substitute", "prune"}
     /\ status = "ok"
     /\ AllEdgesResolve(prev)
     /\ CountFromIndex(prev, prev.root).st = "ok")
        => AllEdgesResolve(lock)

\* C7: a tally that count_from_index returned has one entry per node of the
\* graph in the order of the graph's nodes, at least 1 for the start node,
\* and 0 exactly for the nodes not reachable from the start node.
C7_TallyTotal ==
    (lastOp = "count" /\ status = "ok") =>
        /\ [k \in 1..Len(node_hits.inner) |-> node_hits.inner[k].index] = NodeIndices(lock)
        /\ \A k \in 1..Len(node_hits.inner) :
              /\ node_hits.inner[k].index = node_hits.root_index => node_hits.inner[k].count >= 1
              /\ node_hits.inner[k].count = 0
                    <=> node_hits.inner[k].index \notin ReachableFrom(lock, {node_hits.root_index})

\* a tally has been returned that holds a zero, and a node reached twice
C7_Witness ==
    /\ lastOp = "count"
    /\ status = "ok"
    /\ \E j, k \in 1..Len(node_hits.inner) :
          node_hits.inner[j].count = 0 /\ node_hits.inner[k].count >= 2

(***************************************************************************)
(* The reference enumeration of the follows lines: for every root edge in  *)
(* order that is Indexed, the lines of its target, depth first; a line for *)
(* every edge named like a root edge, a descent along every other edge     *)
(* that leads to a node not on the path walked so far.                     *)
(***************************************************************************)
RECURSIVE RefPrefix(_)
RefPrefix(path) ==
    IF Len(path) = 0 THEN "" ELSE path[1] \o ".inputs." \o RefPrefix(Tail(path))

RefLine(path, name) ==
    "    " \o RefPrefix(path) \o name \o ".follows = \"" \o name \o "\";"

RECURSIVE RefLinesFrom(_, _, _, _, _)
RefLinesFrom(g, n, path, onPath, k) ==
    IF k > Len(g.nodes[n]) THEN <<>>
    ELSE LET name == g.nodes[n][k].name
             child == ResolveEdge(g, g.nodes[n][k].edge)
             rest == RefLinesFrom(g, n, path, onPath, k + 1)
         IN  IF name \in EdgeNames(Root(g)) THEN <<RefLine(path, name)>> \o rest
             ELSE IF child \in {None, Overflow} \/ child \in onPath THEN rest
             ELSE RefLinesFrom(g, child, Append(path, name), onPath \cup {child}, 1) \o rest

RECURSIVE RefLinesOfRoot(_, _)
RefLinesOfRoot(g, k) ==
    IF k > Len(Root(g)) THEN <<>>
    ELSE LET e == Root(g)[k]
         IN  (IF e.edge.kind = "Indexed"
              THEN RefLinesFrom(g, e.edge.index, <<e.name>>, {e.edge.index}, 1)
              ELSE <<>>) \o RefLinesOfRoot(g, k + 1)

\* The same lines, as a set: the nodes along a path of input names, which
\* starts with an Indexed root edge and goes on along edges named like no
\* root edge, each to a node not yet on the path (<<>> when it is no such path).
RECURSIVE PathNodes(_, _, _, _)
PathNodes(g, path, i, seen) ==
    IF i > Len(path) THEN seen
    ELSE IF i = 1
    THEN IF /\ HasEdge(Root(g), path[1])
            /\ GetEdge(Root(g), path[1]).kind = "Indexed"
            /\ HasNode(g, GetEdge(Root(g), path[1]).index)
         THEN PathNodes(g, path, 2, <<GetEdge(Root(g), path[1]).index>>)
         ELSE <<>>
    ELSE LET cur == g.nodes[seen[Len(seen)]]
         IN  IF path[i] \in EdgeNames(Root(g)) \/ ~HasEdge(cur, path[i]) THEN <<>>
             ELSE LET child == ResolveEdge(g, GetEdge(cur, path[i]))
                  IN  IF child \in {None, Overflow} THEN <<>>
                      ELSE IF \E j \in 1..Len(seen) : seen[j] = child THEN <<>>
                      ELSE PathNodes(g, path, i + 1, Append(seen, child))

\* a path visits a node once at most, so it is no longer than there are nodes
NamePaths(g) == UNION {[1..n -> InputNames] : n \in 1..Cardinality(DOMAIN g.nodes)}

\* the pairs (path, name): name is an edge, named like a root edge, of the
\* node the path leads to
FollowsPairs(g) ==
    {pn \in NamePaths(g) \X InputNames :
        LET on == PathNodes(g, pn[1], 1, <<>>)
        IN  /\ on # <<>>
            /\ pn[2] \in EdgeNames(Root(g))
            /\ HasEdge(g.nodes[on[Len(on)]], pn[2])}

\* the graph root {nixpkgs: N1, foo: N2}, N2 {nixpkgs: N3}
ScenarioNodes ==
    [n \in NodeIds |->
        IF n = RootIndex
        THEN <<[name |-> "nixpkgs", edge |-> Indexed("N1")],
               [name |-> "foo", edge |-> Indexed("N2")]>>
        ELSE IF n = "N2" THEN <<[name |-> "nixpkgs", edge |-> Indexed("N3")]>>
        ELSE <<>>]

\* the nodes the edges of n that are named like no root edge resolve to
OffRootTargets(g, n) ==
    {ResolveEdge(g, g.nodes[n][k].edge) :
        k \in {j \in 1..Len(g.nodes[n]) : g.nodes[n][j].name \notin EdgeNames(Root(g))}}
    \ {None, Overflow}

RECURSIVE OffRootReach(_, _)
OffRootReach(g, R) ==
    LET more == R \cup UNION {OffRootTargets(g, n) : n \in R}
    IN  IF more = R THEN R ELSE OffRootReach(g, more)

\* a cycle among nodes along edges named like no root edge
OffRootCycle(g) ==
    \E n \in DOMAIN g.nodes : n \in OffRootReach(g, OffRootTargets(g, n))

\* no edge of the graph has a follows path whose resolution never ends
ResolutionEnds(g) ==
    \A n \in DOMAIN g.nodes : \A k \in 1..Len(g.nodes[n]) :
        ResolveEdge(g, g.nodes[n][k].edge) # Overflow

NoDuplicates(seq) == \A i, j \in 1..Len(seq) : seq[i] = seq[j] => i = j

\* C5: what print_flake_follows_config has written is the two header lines,
\* the lines of the reference enumeration in depth-first, edge-insertion
\* order (each indented by four spaces), and the two trailer lines; for the
\* graph root {nixpkgs: N1, foo: N2}, N2 {nixpkgs: N3} that is the one line
\* foo.inputs.nixpkgs.follows = "nixpkgs";.
C5_EmitterIsReferenceEnumeration ==
    pc = "emitted" =>
        /\ writer = <<StartMarker, "inputs = {">> \o RefLinesOfRoot(lock, 1)
                       \o <<"};", EndMarker>>
        /\ LET body == SubSeq(writer, 3, Len(writer) - 2)
               pairs == FollowsPairs(lock)
           IN  /\ {body[i] : i \in 1..Len(body)} = {RefLine(pn[1], pn[2]) : pn \in pairs}
               /\ Len(body) = Cardinality(pairs)
        /\ (lock.nodes = ScenarioNodes /\ lock.order = SubSeq(NodeOrder, 1, Len(lock.order)))
              => writer = <<StartMarker, "inputs = {",
                            "    foo.inputs.nixpkgs.follows = \"nixpkgs\";",
                            "};", EndMarker>>

\* the emitter has finished on the graph of the scenario
C5_Witness ==
    /\ pc = "emitted"
    /\ lock.nodes = ScenarioNodes
    /\ lock.order = SubSeq(NodeOrder, 1, Len(lock.order))
    /\ Len(writer) = 5

C8_VersionGate ==
    pc = "loaded" =>
        (status = "ok" <=>
            lock.version \in MIN_SUPPORTED_LOCK_VERSION..MAX_SUPPORTED_LOCK_VERSION)

\* the version is one read_flake_lock is meant to accept
VersionSupported(g) ==
    g.version \in MIN_SUPPORTED_LOCK_VERSION..MAX_SUPPORTED_LOCK_VERSION

\* every Indexed edge names a node of the graph
NoDanglingIndex(g) ==
    \A n \in DOMAIN g.nodes : \A k \in 1..Len(g.nodes[n]) :
        g.nodes[n][k].edge.kind = "Indexed" => HasNode(g, g.nodes[n][k].edge.index)

\* C9: a command whose traversal met an edge that resolves to no node does
\* not go on to its output: it ends in a fatal error (stated here for locks
\* of a supported version whose Indexed edges all name a node, so that the
\* edge met is a follows path that names an absent edge).
C9_UnresolvedIsFatal ==
    (VersionSupported(lock) /\ NoDanglingIndex(lock) /\ met_unresolved /\ pc = "done")
        => status # "ok"

\* C10: prune touches its output target only once the load, both counts,
\* the substitution and the pruning are done, and a run ends either with the
\* whole graph written or in a fatal error with the target as it was.
C10_NoPartialSuccess ==
    (cmd = "prune" /\ VersionSupported(lock)) =>
        /\ target # "orig" => pc \in {"opened", "done"}
        /\ (pc = "done" /\ status = "ok") => target = "written"
        /\ status # "ok" => target = "orig"

(***************************************************************************)
(* The patch of flake.nix, told by places in the file that was read.       *)
(***************************************************************************)
\* update_flake_nix was called and has returned or panicked
PatchActed ==
    /\ opts.output = "in_place"
    /\ pc = "done" \/ (pc = "emitted" /\ status = "panic")

\* the place of the first occurrence of a marker, 0 when there is none
FirstPlace(text, marker) ==
    LET places == {k \in 1..Len(text) : text[k] = marker}
    IN  IF places = {} THEN 0
        ELSE CHOOSE k \in places : \A j \in places : k <= j

\* both markers are there and the first START is before the first END
MarkersInOrder(text) ==
    /\ FirstPlace(text, StartMarker) # 0
    /\ FirstPlace(text, EndMarker) # 0
    /\ FirstPlace(text, StartMarker) < FirstPlace(text, EndMarker)

\* the first place of the line that holds place k
LineFirst(text, k) ==
    CHOOSE j \in 1..k :
        /\ j = 1 \/ text[j - 1] = NewLine
        /\ \A i \in j..(k - 1) : text[i] # NewLine

\* the last place of the line that holds place k, its line break left out
LineLast(text, k) ==
    CHOOSE j \in k..Len(text) :
        /\ j = Len(text) \/ text[j + 1] = NewLine
        /\ \A i \in (k + 1)..j : text[i] # NewLine

\* the lines w, each after the same prefix, with line breaks between them
RECURSIVE PrefixedBlock(_, _, _)
PrefixedBlock(prefix, w, k) ==
    IF k > Len(w) THEN <<>>
    ELSE (IF k = 1 THEN <<>> ELSE <<NewLine>>) \o prefix \o <<w[k]>>
             \o PrefixedBlock(prefix, w, k + 1)

\* C11: when flake.nix holds START before END and update_flake_nix returns,
\* the file it leaves is the same up to the line that held START, then
\* holds every line of the generated block after exactly the text that
\* preceded START on its line, and ends with what followed the line that
\* held END; when a marker is missing or START does not come before END the
\* call panics and the file is as it was read.
C11_ManifestPatchFrame ==
    (PatchActed /\ content # NoFile) =>
        IF MarkersInOrder(content)
        THEN status = "ok" =>
               LET s == FirstPlace(content, StartMarker)
                   e == FirstPlace(content, EndMarker)
                   first == LineFirst(content, s)
                   last == LineLast(content, e)
                   prefix == SubSeq(content, first, s - 1)
                   block == PrefixedBlock(prefix, writer, 1)
                   after == SubSeq(content, last + 1, Len(content))
               IN  /\ Len(flake_nix) >= (first - 1) + Len(block) + Len(after)
                   /\ SubSeq(flake_nix, 1, first - 1) = SubSeq(content, 1, first - 1)
                   /\ SubSeq(flake_nix, first, first + Len(block) - 1) = block
                   /\ SubSeq(flake_nix, Len(flake_nix) - Len(after) + 1, Len(flake_nix))
                          = after
        ELSE status = "panic" /\ flake_nix = content

\* a file with a line before the markers, markers after two spaces with an
\* old block between them and a line after, patched with a block that holds
\* a follows line
C11_Witness ==
    /\ PatchActed
    /\ status = "ok"
    /\ content = <<OtherText, NewLine, Space, Space, StartMarker, NewLine, OtherText,
                   NewLine, Space, Space, EndMarker, NewLine, OtherText>>
    /\ Len(writer) >= 5
    /\ flake_nix # content

\* C12: when a count from the root of the graph accepts it and every edge
\* resolves, a count from the root accepts the graph a completed
\* substitution (either mode) leaves (stated here for the substitutions
\* after which every edge still resolves to a node).
C12_SubstitutionKeepsCountable ==
    (/\ lastOp = "substitute"
     /\ status = "ok"
     /\ AllEdgesResolve(prev)
     /\ CountFromIndex(prev, prev.root).st = "ok"
     /\ AllEdgesResolve(lock))
        => CountFromIndex(lock, lock.root).st = "ok"

(***************************************************************************)
(* Pruning, told by the tally and by the nodes a resolution touches.       *)
(***************************************************************************)
\* the nodes the resolution of an edge reaches or passes through
RECURSIVE TouchedFrom(_, _, _)
RECURSIVE TouchedAlong(_, _, _, _, _)
TouchedFrom(g, edge, busy) ==
    IF edge.kind = "Indexed" THEN {edge.index}
    ELSE TouchedAlong(g, edge.path, 1, g.root, busy)

TouchedAlong(g, path, i, cur, busy) ==
    IF i > Len(path) \/ ~HasNode(g, cur) THEN {cur}
    ELSE IF ~HasEdge(g.nodes[cur], path[i]) \/ <<cur, path[i]>> \in busy THEN {cur}
    ELSE LET hop == GetEdge(g.nodes[cur], path[i])
             within == busy \cup {<<cur, path[i]>>}
             next == ResolveFrom(g, hop, within)
         IN  {cur} \cup TouchedFrom(g, hop, within)
                 \cup (IF next \in {None, Overflow} THEN {}
                       ELSE TouchedAlong(g, path, i + 1, next, busy))

Touched(g, edge) == TouchedFrom(g, edge, {})

\* the nodes a tally gives 0
ZeroTally(hits) == {hits[k].index : k \in {j \in 1..Len(hits) : hits[j].count = 0}}

\* the orders in which the nodes of Z can be listed
Orders(Z) ==
    {s \in [1..Cardinality(Z) -> Z] : \A i, j \in 1..Cardinality(Z) : s[i] = s[j] => i = j}

\* C13: a pruning that returned has removed exactly the nodes the tally from
\* the root gave 0; the edges of every node that is left are as they were,
\* resolve as they did, and pass through and reach only nodes that are
\* left; removing the same nodes in any other order gives the same graph.
C13_PruneRemovesOnlyUnreferenced ==
    (lastOp = "prune" /\ status = "ok") =>
        LET zero == ZeroTally(CountFromIndex(prev, prev.root).inner)
        IN  /\ DOMAIN lock.nodes = (DOMAIN prev.nodes) \ zero
            /\ lock.order = SelectSeq(prev.order, LAMBDA i : i \notin zero)
            /\ lock.root = prev.root
            /\ lock.version = prev.version
            /\ \A n \in DOMAIN lock.nodes :
                 /\ lock.nodes[n] = prev.nodes[n]
                 /\ \A k \in 1..Len(prev.nodes[n]) :
                      /\ Touched(prev, prev.nodes[n][k].edge) \subseteq DOMAIN lock.nodes
                      /\ ResolveEdge(lock, lock.nodes[n][k].edge)
                             = ResolveEdge(prev, prev.nodes[n][k].edge)
            /\ \A s \in Orders(zero) : RemoveAll(prev, s, 1) = lock

\* a pruning removed a node and left a node with a Follows edge whose
\* resolution passes through a node that is neither the root nor its end
C13_Witness ==
    /\ lastOp = "prune"
    /\ status = "ok"
    /\ Len(lock.order) < Len(prev.order)
    /\ \E n \in DOMAIN lock.nodes : \E k \in 1..Len(lock.nodes[n]) :
          /\ lock.nodes[n][k].edge.kind = "Follows"
          /\ Touched(prev, prev.nodes[n][k].edge)
                 \ {prev.root, ResolveEdge(prev, prev.nodes[n][k].edge)} # {}

====
